---- MODULE Spec2Model ----
(***************************************************************************)
(* The host wiring of the variable inspector (src/src/index.ts) and the    *)
(* display panel (src/src/variableinspector.ts).                           *)
(*                                                                         *)
(* One action is one event-loop task together with the promise reactions   *)
(* it schedules and that run before the next task: a `then` callback on an *)
(* already settled promise, and the callbacks queued on a promise the task *)
(* settles, run inside the action that causes them.                        *)
(*                                                                         *)
(* A handler is named by the widget whose widgetAdded callback constructed *)
(* it (a widget constructs at most one), so handler ids are widget ids.    *)
(* The manager, the handlers, the connector and the script registry are    *)
(* not among the source files; they are modelled from the specification.   *)
(***************************************************************************)
EXTENDS Integers, Sequences, FiniteSets, TLC

\* ------------------------------------------------------------- bounds
NumConsoles == 2
NumNotebooks == 1
NumPaths == 2
MaxWaiters == 1
MaxInflight == 2
MaxVars == 2

Consoles == 1..NumConsoles
Notebooks == (NumConsoles + 1)..(NumConsoles + NumNotebooks)
Widgets == Consoles \cup Notebooks
Paths == 1..NumPaths

\* null, for a handler reference
NoHandler == 0

\* ------------------------------------------------------ data (IVariable)
DX ==
  [varName |-> "x", varType |-> "int", varSize |-> "28", varShape |-> "",
   varContent |-> <<"1">>, isMatrix |-> FALSE]

DM ==
  [varName |-> "m", varType |-> "ndarray", varSize |-> "128", varShape |-> "2 x 2",
   varContent |-> <<"[", "\\", "n", "]">>, isMatrix |-> TRUE]

Descriptors == {DX, DM}

\* the listings a kernel may reply with: ordered, one entry per variable name
Payloads ==
  {p \in UNION {[1..n -> Descriptors] : n \in 0..MaxVars} :
     \A i, j \in DOMAIN p : i # j => p[i].varName # p[j].varName}

\* the listings the kernels of the wired sessions reply with
Listings == {<<DM, DX>>}

KernelTypes == {"python3", "cobol"}

\* Languages.getScript: resolves for a registered language, rejects otherwise
GetScript(kerneltype) ==
  IF kerneltype = "python3" THEN [ok |-> TRUE, language |-> kerneltype]
  ELSE [ok |-> FALSE, language |-> kerneltype]

\* the IVariableKernelInfo a handler attaches to its updates
KernelInfoOf(h) ==
  [kernelName |-> ToString(h), languageName |-> "python3", context |-> ""]

\* ------------------------------------------------------------- state
VARIABLES
  wstate,      \* widget -> "new" | "tracked" | "disposed"
  wpath,       \* widget -> session.path (0 before the widget exists)
  kerneltype,  \* widget -> connector.kerneltype ("" until connector.ready)
  inMap,       \* widget -> handlers[widget.id] is present
  prom,        \* widget -> state of the promise stored in handlers[widget.id]
  val,         \* widget -> the handler that promise resolved with
  waiters,     \* widget -> then-callbacks registered on the pending promise
  hkind,       \* handler -> "none" | "real" | "dummy"
  hready,      \* handler -> its ready promise has resolved
  hdisposed,   \* handler -> dispose() has run
  hookOn,      \* widget -> a disposed callback of the wiring is connected
  inflight,    \* handler -> performInspection executes not yet replied
  cache,       \* handler -> the listing it last emitted, if any
  mgrHandlers, \* manager: session path -> handler
  mgrSource,   \* manager.source
  panel,       \* manager.panel and the VariableInspectorPanel's fields
  focused,     \* the shell's current widget, when tracked (else 0)
  shown,       \* the last update delivered to the panel
  last         \* the last operation on the panel: its argument, the panel's
               \* source before it, the calls it made

vars ==
  <<wstate, wpath, kerneltype, inMap, prom, val, waiters, hkind, hready,
    hdisposed, hookOn, inflight, cache, mgrHandlers, mgrSource, panel, focused,
    shown, last>>

NoCache == [has |-> FALSE, payload |-> <<>>]

NoCall == [on |-> NoHandler, name |-> ""]

NoPanel ==
  [exists |-> FALSE, attached |-> FALSE, source |-> NoHandler,
   subI |-> {}, subD |-> {}, rows |-> <<>>, info |-> <<"Loading...">>]

NoShown == [by |-> NoHandler, payload |-> <<>>]

Quiet ==
  [op |-> "", arg |-> 0, src |-> NoHandler, calls |-> <<>>, mcall |-> NoCall,
   err |-> FALSE]

\* new VariableInspectorPanel(), as newPanel makes it
NewPanel == [NoPanel EXCEPT !.exists = TRUE]

InitWiring ==
  /\ wstate = [w \in Widgets |-> "new"]
  /\ wpath = [w \in Widgets |-> 0]
  /\ kerneltype = [w \in Widgets |-> ""]
  /\ inMap = [w \in Widgets |-> FALSE]
  /\ prom = [w \in Widgets |-> "none"]
  /\ val = [w \in Widgets |-> NoHandler]
  /\ waiters = [w \in Widgets |-> 0]
  /\ hkind = [w \in Widgets |-> "none"]
  /\ hready = [w \in Widgets |-> FALSE]
  /\ hdisposed = [w \in Widgets |-> FALSE]
  /\ hookOn = [w \in Widgets |-> FALSE]
  /\ inflight = [w \in Widgets |-> 0]
  /\ cache = [w \in Widgets |-> NoCache]
  /\ mgrHandlers = [p \in Paths |-> NoHandler]
  /\ mgrSource = NoHandler
  /\ focused = 0
  /\ shown = NoShown
  /\ last = Quiet

\* after activation: no widget yet, no panel
Init == InitWiring /\ panel = NoPanel

\* --------------------------------------------- VariableInspectorPanel
\* String.replace(/\\n/g, "</br>") on a string given as its characters
RECURSIVE ReplaceNewlines(_)
ReplaceNewlines(s) ==
  IF Len(s) = 0 THEN <<>>
  ELSE IF Len(s) >= 2 /\ s[1] = "\\" /\ s[2] = "n"
       THEN <<"</br>">> \o ReplaceNewlines(SubSeq(s, 3, Len(s)))
       ELSE <<s[1]>> \o ReplaceNewlines(SubSeq(s, 2, Len(s)))

\* ToolbarKernelInfo.content setter
InfoText(info) ==
  IF info.context # "" THEN <<info.context>>
  ELSE <<"Inspecting ", info.languageName, "-kernel '", info.kernelName>>

\* one pass of the loop body: insertRow(), the click handler, the five cells
RenderRow(d) ==
  [cells |-> <<<<d.varName>>, <<d.varType>>, <<d.varSize>>, <<d.varShape>>,
               ReplaceNewlines(d.varContent)>>,
   onclick |-> IF d.isMatrix THEN d.varName ELSE ""]

RECURSIVE InsertRows(_, _, _)
InsertRows(tfoot, args, index) ==
  IF index > Len(args) THEN tfoot
  ELSE InsertRows(Append(tfoot, RenderRow(args[index])), args, index + 1)

\* onInspectorUpdate without deleteTFoot: the rows pile up
OnInspectorUpdate_KeepsRows(pn, allArgs) ==
  [pn EXCEPT !.info = InfoText(allArgs.info),
             !.rows = InsertRows(pn.rows, allArgs.payload, 1)]

\* onInspectorUpdate: deleteTFoot, createTFoot, then one row per descriptor
OnInspectorUpdate(pn, allArgs) ==
  [pn EXCEPT !.info = InfoText(allArgs.info),
             !.rows = InsertRows(<<>>, allArgs.payload, 1)]

\* the source setter without "Remove old subscriptions"
PanelSetSource_KeepsSubscriptions(pn, source) ==
  IF pn.source = source THEN [pn |-> pn, calls |-> <<>>]
  ELSE LET set == [pn EXCEPT !.source = source]
       IN IF source # NoHandler
          THEN [pn |-> [set EXCEPT !.subI = @ \cup {source},
                                   !.subD = @ \cup {source}],
                calls |-> <<source>>]
          ELSE [pn |-> set, calls |-> <<>>]

\* the source setter with the performInspection of its first branch enabled
PanelSetSource_InspectsSame(pn, source) ==
  IF pn.source = source
  THEN [pn |-> pn, calls |-> IF source # NoHandler THEN <<source>> ELSE <<>>]
  ELSE LET off == IF pn.source # NoHandler
                  THEN [pn EXCEPT !.subI = @ \ {pn.source},
                                  !.subD = @ \ {pn.source}]
                  ELSE pn
           set == [off EXCEPT !.source = source]
       IN IF source # NoHandler
          THEN [pn |-> [set EXCEPT !.subI = @ \cup {source},
                                   !.subD = @ \cup {source}],
                calls |-> <<source>>]
          ELSE [pn |-> set, calls |-> <<>>]

\* the source setter; calls lists the performInspection calls it makes
PanelSetSource(pn, source) ==
  IF pn.source = source THEN [pn |-> pn, calls |-> <<>>]
  ELSE LET off == IF pn.source # NoHandler
                  THEN [pn EXCEPT !.subI = @ \ {pn.source},
                                  !.subD = @ \ {pn.source}]
                  ELSE pn
           set == [off EXCEPT !.source = source]
       IN IF source # NoHandler
          THEN [pn |-> [set EXCEPT !.subI = @ \cup {source},
                                   !.subD = @ \cup {source}],
                calls |-> <<source>>]
          ELSE [pn |-> set, calls |-> <<>>]

\* onSourceDisposed, run when a handler the panel is subscribed to is disposed
OnSourceDisposed(pn) == PanelSetSource(pn, NoHandler).pn

\* dispose without "this.source = null"
PanelDispose_KeepsSource(pn) ==
  IF ~pn.exists THEN pn
  ELSE [pn EXCEPT !.exists = FALSE, !.attached = FALSE,
                  !.rows = NoPanel.rows, !.info = NoPanel.info]

\* dispose: source = null, then super.dispose(), which drops the widget's
\* node and whose disposed signal makes newPanel's callback null manager.panel
PanelDispose(pn) ==
  IF ~pn.exists THEN pn
  ELSE [PanelSetSource(pn, NoHandler).pn EXCEPT
          !.exists = FALSE, !.attached = FALSE, !.rows = NoPanel.rows,
          !.info = NoPanel.info]

\* row.onclick of row i
RowClick(pn, i) ==
  IF pn.rows[i].onclick = "" THEN [mcall |-> NoCall, err |-> FALSE]
  ELSE IF pn.source = NoHandler THEN [mcall |-> NoCall, err |-> TRUE]
  ELSE [mcall |-> [on |-> pn.source, name |-> pn.rows[i].onclick],
        err |-> FALSE]

\* ------------------------------------------- VariableInspectorManager
HasHandler(id) == mgrHandlers[id] # NoHandler

GetHandler(id) == mgrHandlers[id]

AddHandler(handlers, h, id) == [handlers EXCEPT ![id] = h]

\* the active reference is cleared when the active handler reports disposal
ManagerOnSourceDisposed(source, h) == IF source = h THEN NoHandler ELSE source

\* a disposed handler is removed from the manager's map
ManagerDropHandler(handlers, h) ==
  [id \in Paths |-> IF handlers[id] = h THEN NoHandler ELSE handlers[id]]

\* the panel setter: a panel without a source is bound to the active handler
ManagerSetPanel(pn) ==
  IF pn.source = NoHandler THEN PanelSetSource(pn, mgrSource)
  ELSE [pn |-> pn, calls |-> <<>>]

\* the source setter: the open panel follows the active handler
ManagerSetSource(st, source) ==
  IF st.source = source THEN st
  ELSE LET r == IF st.pn.exists THEN PanelSetSource(st.pn, source)
                ELSE [pn |-> st.pn, calls |-> <<>>]
       IN [st EXCEPT !.source = source, !.pn = r.pn,
                     !.calls = @ \o r.calls]

\* -------------------------------------------------------- the wiring
\* the callback both currentChanged handlers pass to future.then
FocusThen(st, source) ==
  IF source # NoHandler
  THEN LET r == ManagerSetSource(st, source)
       IN [r EXCEPT !.calls = @ \o <<source>>]
  ELSE st

RECURSIVE RunReactions(_, _, _)
RunReactions(n, st, source) ==
  IF n = 0 THEN st ELSE RunReactions(n - 1, FocusThen(st, source), source)

Reactions(n, source) ==
  RunReactions(n, [source |-> mgrSource, pn |-> panel, calls |-> <<>>],
               source)

\* the handler's ready promise: after an init script that failed the handler
\* logs the failure, stays usable, and lets its dependents know as it does
\* after one that succeeded
ReadyResolves(initOk) == TRUE

\* performInspection executes on a live inspection handler only
Executes(h) == hkind[h] = "real" /\ ~hdisposed[h]

Count(calls, h) == Cardinality({i \in DOMAIN calls : calls[i] = h})

Issue(calls) ==
  [h \in Widgets |-> inflight[h] + IF Executes(h) THEN Count(calls, h) ELSE 0]

RECURSIVE Total(_, _)
Total(f, S) ==
  IF S = {} THEN 0
  ELSE LET h == CHOOSE x \in S : TRUE IN f[h] + Total(f, S \ {h})

\* at most MaxInflight executes are outstanding at a time
CanIssue(calls) == Total(Issue(calls), Widgets) <= MaxInflight

\* widget ids and session paths are named in the order of their first use
Fresh(w, p) ==
  /\ wstate[w] = "new"
  /\ \A v \in Widgets :
       (v < w /\ (v \in Consoles <=> w \in Consoles)) => wstate[v] # "new"
  /\ \A q \in Paths : q < p => \E v \in Widgets : wpath[v] = q

\* consoles.widgetAdded
ConsoleAdded(w, p) ==
  /\ w \in Consoles
  /\ Fresh(w, p)
  /\ wstate' = [wstate EXCEPT ![w] = "tracked"]
  /\ wpath' = [wpath EXCEPT ![w] = p]
  /\ inMap' = [inMap EXCEPT ![w] = TRUE]
  /\ IF HasHandler(p)
     THEN /\ prom' = [prom EXCEPT ![w] = "resolved"]
          /\ val' = [val EXCEPT ![w] = GetHandler(p)]
     ELSE /\ prom' = [prom EXCEPT ![w] = "pending"]
          /\ val' = val
  /\ last' = Quiet
  /\ UNCHANGED <<kerneltype, waiters, hkind, hready, hdisposed, hookOn,
                 inflight, cache, mgrHandlers, mgrSource, panel, focused, shown>>

\* notebooks.widgetAdded
NotebookAdded(w, p) ==
  /\ w \in Notebooks
  /\ Fresh(w, p)
  /\ wstate' = [wstate EXCEPT ![w] = "tracked"]
  /\ wpath' = [wpath EXCEPT ![w] = p]
  /\ inMap' = [inMap EXCEPT ![w] = TRUE]
  /\ prom' = [prom EXCEPT ![w] = "pending"]
  /\ last' = Quiet
  /\ UNCHANGED <<kerneltype, val, waiters, hkind, hready, hdisposed, hookOn,
                 inflight, cache, mgrHandlers, mgrSource, panel, focused, shown>>

\* the widget's connector is waiting for its session; a session reports
\* ready only while its widget lives
Connecting(w) ==
  wstate[w] = "tracked" /\ prom[w] = "pending" /\ hkind[w] = "none"

\* scripts.then: new VariableInspectionHandler, addHandler, disposed hookup
CreateHandler(w) ==
  /\ hkind' = [hkind EXCEPT ![w] = "real"]
  /\ mgrHandlers' = AddHandler(mgrHandlers, w, wpath[w])
  /\ hookOn' = [hookOn EXCEPT ![w] = TRUE]
  /\ last' = Quiet
  /\ UNCHANGED <<wstate, wpath, inMap, prom, val, waiters, hready, hdisposed,
                 inflight, cache, mgrSource, panel, focused, shown>>

\* consoles: connector.ready.then
ConsoleConnectorReady(w, kt) ==
  /\ w \in Consoles
  /\ Connecting(w)
  /\ kerneltype' = [kerneltype EXCEPT ![w] = kt]
  /\ IF GetScript(kt).ok
     THEN CreateHandler(w)
     ELSE \* scripts.catch: a DummyHandler, resolve(handler)
          LET st == Reactions(waiters[w], w)
          IN /\ hkind' = [hkind EXCEPT ![w] = "dummy"]
             /\ hookOn' = [hookOn EXCEPT ![w] = TRUE]
             /\ prom' = [prom EXCEPT ![w] = "resolved"]
             /\ val' = [val EXCEPT ![w] = w]
             /\ waiters' = [waiters EXCEPT ![w] = 0]
             /\ mgrSource' = st.source
             /\ panel' = st.pn
             /\ last' = Quiet
             /\ UNCHANGED <<wstate, wpath, inMap, hready, hdisposed, inflight,
                            cache, mgrHandlers, focused, shown>>

\* notebooks: connector.ready.then
NotebookConnectorReady(w, kt) ==
  /\ w \in Notebooks
  /\ Connecting(w)
  /\ kerneltype' = [kerneltype EXCEPT ![w] = kt]
  /\ IF GetScript(kt).ok
     THEN CreateHandler(w)
     ELSE \* scripts.catch: reject(result)
          /\ prom' = [prom EXCEPT ![w] = "rejected"]
          /\ waiters' = [waiters EXCEPT ![w] = 0]
          /\ last' = Quiet
          /\ UNCHANGED <<wstate, wpath, inMap, val, hkind, hready, hdisposed,
                         hookOn, inflight, cache, mgrHandlers, mgrSource, panel,
                         focused, shown>>

\* handler.ready.then: resolve(handler), then the callbacks waiting on it;
\* the init script completes only on a handler that has not been disposed
HandlerReady(w) ==
  /\ hkind[w] = "real"
  /\ ~hready[w]
  /\ ~hdisposed[w]
  /\ LET st == Reactions(waiters[w], w)
     IN /\ CanIssue(st.calls)
        /\ hready' = [hready EXCEPT ![w] = TRUE]
        /\ prom' = [prom EXCEPT ![w] = "resolved"]
        /\ val' = [val EXCEPT ![w] = w]
        /\ waiters' = [waiters EXCEPT ![w] = 0]
        /\ mgrSource' = st.source
        /\ panel' = st.pn
        /\ inflight' = Issue(st.calls)
        /\ last' = Quiet
  /\ UNCHANGED <<wstate, wpath, kerneltype, inMap, hkind, hdisposed, hookOn,
                 cache, mgrHandlers, focused, shown>>

\* handler.ready.then with a reaction that resolves only after a successful
\* init script
HandlerInitFailed_NoResolve(w) ==
  /\ hkind[w] = "real"
  /\ ~hready[w]
  /\ ~hdisposed[w]
  /\ hready' = [hready EXCEPT ![w] = TRUE]
  /\ last' = [Quiet EXCEPT !.op = "initfailed", !.arg = w]
  /\ UNCHANGED <<wstate, wpath, kerneltype, inMap, prom, val, waiters, hkind,
                 hdisposed, hookOn, inflight, cache, mgrHandlers, mgrSource,
                 panel, focused, shown>>

\* handler.ready.then when the handler's init script failed
HandlerInitFailed(w) ==
  /\ ReadyResolves(FALSE)
  /\ hkind[w] = "real"
  /\ ~hready[w]
  /\ ~hdisposed[w]
  /\ LET st == Reactions(waiters[w], w)
     IN /\ CanIssue(st.calls)
        /\ hready' = [hready EXCEPT ![w] = TRUE]
        /\ prom' = [prom EXCEPT ![w] = "resolved"]
        /\ val' = [val EXCEPT ![w] = w]
        /\ waiters' = [waiters EXCEPT ![w] = 0]
        /\ mgrSource' = st.source
        /\ panel' = st.pn
        /\ inflight' = Issue(st.calls)
        /\ last' = [Quiet EXCEPT !.op = "initfailed", !.arg = w]
  /\ UNCHANGED <<wstate, wpath, kerneltype, inMap, hkind, hdisposed, hookOn,
                 cache, mgrHandlers, focused, shown>>

\* a currentChanged callback that runs its reaction without waiting for the
\* widget's handler promise
FocusChanged_NoWait(w) ==
  /\ wstate[w] = "tracked"
  /\ focused # w
  /\ focused' = w
  /\ LET st == Reactions(1, w)
     IN /\ CanIssue(st.calls)
        /\ mgrSource' = st.source
        /\ panel' = st.pn
        /\ inflight' = Issue(st.calls)
        /\ last' = Quiet
  /\ UNCHANGED <<wstate, wpath, kerneltype, inMap, prom, val, waiters, hkind,
                 hready, hdisposed, hookOn, cache, mgrHandlers, shown>>

\* either currentChanged callback, for a widget its tracker has
FocusChanged(w) ==
  /\ wstate[w] = "tracked"
  /\ focused # w
  /\ focused' = w
  /\ CASE prom[w] = "resolved" ->
            LET st == Reactions(1, val[w])
            IN /\ CanIssue(st.calls)
               /\ mgrSource' = st.source
               /\ panel' = st.pn
               /\ inflight' = Issue(st.calls)
               /\ last' = Quiet
               /\ waiters' = waiters
       [] prom[w] = "pending" ->
            /\ waiters[w] < MaxWaiters
            /\ waiters' = [waiters EXCEPT ![w] = @ + 1]
            /\ last' = Quiet
            /\ UNCHANGED <<mgrSource, panel, inflight>>
       [] OTHER ->
            /\ last' = Quiet
            /\ UNCHANGED <<mgrSource, panel, inflight, waiters>>
  /\ UNCHANGED <<wstate, wpath, kerneltype, inMap, prom, val, hkind, hready,
                 hdisposed, hookOn, cache, mgrHandlers, shown>>

\* consoles: app.shell.currentChanged
ConsoleFocus(w) == w \in Consoles /\ FocusChanged(w)

\* notebooks: app.shell.currentChanged
NotebookFocus(w) == w \in Notebooks /\ FocusChanged(w)

\* callbacks that drop the active handler when the focus leaves the tracked
\* widgets
FocusElsewhere_ClearsSource ==
  /\ focused # 0
  /\ focused' = 0
  /\ mgrSource' = NoHandler
  /\ last' = Quiet
  /\ UNCHANGED <<wstate, wpath, kerneltype, inMap, prom, val, waiters, hkind,
                 hready, hdisposed, hookOn, inflight, cache, mgrHandlers,
                 panel, shown>>

\* focus moves to a widget neither tracker has, or to none
FocusElsewhere ==
  /\ focused # 0
  /\ focused' = 0
  /\ last' = Quiet
  /\ UNCHANGED <<wstate, wpath, kerneltype, inMap, prom, val, waiters, hkind,
                 hready, hdisposed, hookOn, inflight, cache, mgrHandlers,
                 mgrSource, panel, shown>>

\* the widget's disposed signal: the callback the wiring connected, if any
WidgetDisposed(w) ==
  /\ wstate[w] = "tracked"
  /\ wstate' = [wstate EXCEPT ![w] = "disposed"]
  /\ focused' = IF focused = w THEN 0 ELSE focused
  /\ last' = Quiet
  /\ IF hookOn[w]
     THEN \* delete handlers[id]; handler.dispose()
          /\ inMap' = [inMap EXCEPT ![w] = FALSE]
          /\ hookOn' = [hookOn EXCEPT ![w] = FALSE]
          /\ hdisposed' = [hdisposed EXCEPT ![w] = TRUE]
          /\ inflight' = [inflight EXCEPT ![w] = 0]
          /\ cache' = [cache EXCEPT ![w] = NoCache]
          /\ mgrSource' = ManagerOnSourceDisposed(mgrSource, w)
          /\ mgrHandlers' = ManagerDropHandler(mgrHandlers, w)
          /\ panel' = IF w \in panel.subD THEN OnSourceDisposed(panel)
                      ELSE panel
     ELSE UNCHANGED <<inMap, hookOn, hdisposed, inflight, cache, mgrSource,
                      mgrHandlers, panel>>
  /\ UNCHANGED <<wpath, kerneltype, prom, val, waiters, hkind, hready, shown>>

\* the kernel's reply to a performInspection: emit when the listing changed
Reply(h, payload) ==
  /\ inflight[h] > 0
  /\ inflight' = [inflight EXCEPT ![h] = @ - 1]
  /\ last' = Quiet
  /\ IF cache[h] = [has |-> TRUE, payload |-> payload]
     THEN UNCHANGED <<cache, panel, shown>>
     ELSE /\ cache' = [cache EXCEPT ![h] = [has |-> TRUE, payload |-> payload]]
          /\ IF h \in panel.subI
             THEN /\ panel' = OnInspectorUpdate(
                               panel, [info |-> KernelInfoOf(h),
                                       payload |-> payload])
                  /\ shown' = [by |-> h, payload |-> payload]
             ELSE UNCHANGED <<panel, shown>>
  /\ UNCHANGED <<wstate, wpath, kerneltype, inMap, prom, val, waiters, hkind,
                 hready, hdisposed, hookOn, mgrHandlers, mgrSource, focused>>

\* the reply is an error or does not parse: swallowed
ReplyError(h) ==
  /\ inflight[h] > 0
  /\ inflight' = [inflight EXCEPT ![h] = @ - 1]
  /\ last' = Quiet
  /\ UNCHANGED <<wstate, wpath, kerneltype, inMap, prom, val, waiters, hkind,
                 hready, hdisposed, hookOn, cache, mgrHandlers, mgrSource,
                 panel, focused, shown>>

\* the open command; last keeps manager.source and the performInspection
\* calls made while the command ran
OpenCommand ==
  LET made == IF ~panel.exists THEN ManagerSetPanel(NewPanel)
              ELSE [pn |-> panel, calls |-> <<>>]
      calls == made.calls \o
               (IF mgrSource # NoHandler THEN <<mgrSource>> ELSE <<>>)
  IN /\ CanIssue(calls)
     /\ panel' = [made.pn EXCEPT !.attached = TRUE]
     /\ inflight' = Issue(calls)
     /\ last' = [Quiet EXCEPT !.op = "open", !.src = mgrSource,
                              !.calls = calls]
     /\ UNCHANGED <<wstate, wpath, kerneltype, inMap, prom, val, waiters,
                    hkind, hready, hdisposed, hookOn, cache, mgrHandlers,
                    mgrSource, focused, shown>>

\* the user closes the panel
PanelClosed ==
  /\ panel.exists
  /\ panel' = PanelDispose(panel)
  /\ shown' = NoShown
  /\ last' = Quiet
  /\ UNCHANGED <<wstate, wpath, kerneltype, inMap, prom, val, waiters, hkind,
                 hready, hdisposed, hookOn, inflight, cache, mgrHandlers,
                 mgrSource, focused>>

\* the user clicks row i of the table
RowClicked(i) ==
  /\ panel.exists
  /\ i \in 1..Len(panel.rows)
  /\ LET r == RowClick(panel, i)
     IN last' = [Quiet EXCEPT !.op = "click", !.arg = i, !.mcall = r.mcall,
                              !.err = r.err]
  /\ UNCHANGED <<wstate, wpath, kerneltype, inMap, prom, val, waiters, hkind,
                 hready, hdisposed, hookOn, inflight, cache, mgrHandlers,
                 mgrSource, panel, focused, shown>>

Next ==
  \/ \E w \in Widgets, p \in Paths : ConsoleAdded(w, p)
  \/ \E w \in Widgets, p \in Paths : NotebookAdded(w, p)
  \/ \E w \in Widgets, kt \in KernelTypes : ConsoleConnectorReady(w, kt)
  \/ \E w \in Widgets, kt \in KernelTypes : NotebookConnectorReady(w, kt)
  \/ \E w \in Widgets : HandlerReady(w)
  \/ \E w \in Widgets : HandlerInitFailed(w)
  \/ \E w \in Widgets : ConsoleFocus(w)
  \/ \E w \in Widgets : NotebookFocus(w)
  \/ FocusElsewhere
  \/ \E w \in Widgets : WidgetDisposed(w)
  \/ \E h \in Widgets, payload \in Listings : Reply(h, payload)
  \/ \E h \in Widgets : ReplyError(h)
  \/ OpenCommand
  \/ PanelClosed
  \/ \E i \in 1..MaxVars : RowClicked(i)

Spec == Init /\ [][Next]_vars

\* ------------------------------- the panel with any caller and any sources
\* The operations of VariableInspectorPanel, called in any order, with the
\* handlers as the inspectables a caller may bind: each may emit inspected
\* with any listing until it is disposed, and emits disposed once.
InitPanel == InitWiring /\ panel = NewPanel

WiringVars ==
  <<wstate, wpath, kerneltype, inMap, prom, val, waiters, hkind, hready,
    hookOn, inflight, cache, mgrHandlers, mgrSource, focused>>

\* new VariableInspectorPanel()
PanelConstructed ==
  /\ ~panel.exists
  /\ panel' = NewPanel
  /\ last' = [Quiet EXCEPT !.op = "new"]
  /\ UNCHANGED <<WiringVars, hdisposed, shown>>

\* panel.source = source
SourceAssigned(source) ==
  /\ panel.exists
  /\ LET r == PanelSetSource(panel, source)
     IN /\ panel' = r.pn
        /\ last' = [Quiet EXCEPT !.op = "source", !.arg = source,
                                 !.src = panel.source, !.calls = r.calls]
  /\ UNCHANGED <<WiringVars, hdisposed, shown>>

\* handler h emits inspected; last.arg keeps the number of rows shown before
Inspected(h, payload) ==
  /\ ~hdisposed[h]
  /\ panel.exists
  /\ last' = [Quiet EXCEPT !.op = "inspected", !.arg = Len(panel.rows),
                           !.src = panel.source]
  /\ IF h \in panel.subI
     THEN /\ panel' = OnInspectorUpdate(
                        panel, [info |-> KernelInfoOf(h), payload |-> payload])
          /\ shown' = [by |-> h, payload |-> payload]
     ELSE UNCHANGED <<panel, shown>>
  /\ UNCHANGED <<WiringVars, hdisposed>>

\* handler h is disposed and emits disposed
SourceDisposed(h) ==
  /\ ~hdisposed[h]
  /\ hdisposed' = [hdisposed EXCEPT ![h] = TRUE]
  /\ panel' = IF h \in panel.subD THEN OnSourceDisposed(panel) ELSE panel
  /\ last' = [Quiet EXCEPT !.op = "disposed", !.arg = h,
                           !.src = panel.source]
  /\ UNCHANGED <<WiringVars, shown>>

\* panel.dispose()
PanelDisposed ==
  /\ panel.exists
  /\ panel' = PanelDispose(panel)
  /\ shown' = NoShown
  /\ last' = [Quiet EXCEPT !.op = "dispose"]
  /\ UNCHANGED <<WiringVars, hdisposed>>

NextPanel ==
  \/ PanelConstructed
  \/ \E source \in Widgets \cup {NoHandler} : SourceAssigned(source)
  \/ \E h \in Widgets, payload \in Payloads : Inspected(h, payload)
  \/ \E h \in Widgets : SourceDisposed(h)
  \/ PanelDisposed
  \/ \E i \in 1..MaxVars : RowClicked(i)

SpecPanel == InitPanel /\ [][NextPanel]_vars

\* ------------------------------------------------------------ claims
AllSettled == \A w \in Widgets : prom[w] # "pending"

\* C1: at most one live inspection handler exists per session path, whatever
\* the order of widgetAdded, connector-ready and script-lookup events.
C1_OneHandlerPerSession ==
  \A a, b \in Widgets :
    (a # b /\ hkind[a] = "real" /\ hkind[b] = "real"
       /\ ~hdisposed[a] /\ ~hdisposed[b]) => wpath[a] # wpath[b]

\* C2: a disposed handler is never the manager's active source.
C2_DisposedNeverActive ==
  mgrSource # NoHandler => ~hdisposed[mgrSource]

\* C3: while the focus stays on a widget whose handler is the active source,
\* a handler promise of another widget that resolves late does not replace it.
C3_LateResolveKeepsFocus ==
  [][(/\ focused # 0
      /\ focused' = focused
      /\ prom[focused] = "resolved"
      /\ mgrSource = val[focused]
      /\ ~hdisposed'[mgrSource]) => mgrSource' = mgrSource]_vars

\* C4: when the script lookup rejects for a widget's kernel type, the widget's
\* handler promise resolves with a Dummy Handler, for consoles and notebooks.
C4_DummyFallback ==
  \A w \in Widgets :
    (kerneltype[w] # "" /\ ~GetScript(kerneltype[w]).ok)
      => (prom[w] = "resolved" /\ hkind[val[w]] = "dummy")

\* C5: once a widget is disposed and every handler promise has settled, the
\* widget has no entry in its handlers map and the handler made for it is
\* disposed.
C5_DisposedWidgetCleaned ==
  \A w \in Widgets :
    (wstate[w] = "disposed" /\ AllSettled)
      => (~inMap[w] /\ (hkind[w] # "none" => hdisposed[w]))

\* C6: a step that makes an inspection handler the manager's source happens
\* only after that handler's ready promise has resolved.
C6_ActivatedAfterReady ==
  [][\A h \in Widgets :
       (mgrSource' = h /\ mgrSource # h /\ hkind[h] = "real") => hready'[h]]_vars

\* C7: no step issues a performInspection on a handler whose previous one has
\* not yet been replied to.
C7_OneExecuteAtATime ==
  [][\A h \in Widgets : inflight[h] >= 1 => inflight'[h] <= inflight[h]]_vars

\* C8: when a handler emits disposed, the panel's source becomes null if that
\* handler was the panel's source, and is left as it was otherwise.
C8_SourceClearedOnItsDisposal ==
  [][\A h \in Widgets :
       (panel.exists /\ ~hdisposed[h] /\ hdisposed'[h])
         => panel'.source = IF panel.source = h THEN NoHandler
                            ELSE panel.source]_vars

\* the panel's source was just disposed, and the panel has let go of it
C8_Witness ==
  /\ last.op = "disposed"
  /\ last.arg # NoHandler
  /\ last.src = last.arg
  /\ panel.exists
  /\ panel.source = NoHandler

\* C9: the table holds one row per descriptor of the most recent update, in
\* the update's order, and the kernel-info widget shows that update's info.
C9_TableShowsLatestUpdate ==
  (panel.exists /\ shown.by # NoHandler) =>
    /\ Len(panel.rows) = Len(shown.payload)
    /\ \A i \in 1..Len(shown.payload) :
         /\ panel.rows[i].cells[1] = <<shown.payload[i].varName>>
         /\ panel.rows[i].cells[2] = <<shown.payload[i].varType>>
         /\ panel.rows[i].cells[3] = <<shown.payload[i].varSize>>
         /\ panel.rows[i].cells[4] = <<shown.payload[i].varShape>>
    /\ panel.info = <<"Inspecting ", KernelInfoOf(shown.by).languageName,
                      "-kernel '", KernelInfoOf(shown.by).kernelName>>

\* an update with one variable has replaced a table of two rows
C9_Witness ==
  /\ last.op = "inspected"
  /\ last.arg = 2
  /\ panel.exists
  /\ shown.payload = <<DX>>
  /\ Len(panel.rows) = 1

\* C10: a click on a displayed row calls performMatrixInspection, with the
\* row's variable name, on the handler that rendered the row when the row is
\* flagged isMatrix, calls nothing when it is not, and never fails for want
\* of a source.
C10_ClickReachesRenderingSource ==
  last.op = "click" =>
    /\ ~last.err
    /\ last.mcall =
         IF shown.payload[last.arg].isMatrix
         THEN [on |-> shown.by, name |-> shown.payload[last.arg].varName]
         ELSE NoCall

\* C11: while a widget's connector has not reported ready, the widget's
\* handler promise stays pending, no handler exists for the widget or is in
\* the manager's map under its id, and a focus change to the widget changes
\* neither manager.source nor the executes outstanding on any handler.
C11_NeverReadyStaysPending ==
  [][\A w \in Widgets :
       (prom[w] = "pending" /\ kerneltype[w] = "" /\ kerneltype'[w] = "")
         => /\ prom'[w] = "pending"
            /\ hkind'[w] = "none"
            /\ \A p \in Paths : mgrHandlers'[p] # w
            /\ (focused # w /\ focused' = w)
                 => (mgrSource' = mgrSource /\ inflight' = inflight)]_vars

\* console 1 waits for its connector with a focus callback queued, while the
\* handler of console 2, added later, has become the active source
C11_Witness ==
  /\ Connecting(1)
  /\ waiters[1] = 1
  /\ wstate[2] = "tracked"
  /\ hkind[2] = "real"
  /\ hready[2]
  /\ focused = 2
  /\ mgrSource = 2
  /\ inflight[2] >= 1

C13_TableBelongsToSource ==
  [][\A S \in Widgets :
       (/\ panel.exists
        /\ panel.source = S
        /\ panel'.source = S
        /\ Executes(S)
        /\ hready[S]
        /\ inflight[S] = 1
        /\ inflight'[S] = 0
        /\ cache'[S].has)
         => /\ shown'.by = S
            /\ panel'.rows = InsertRows(<<>>, cache'[S].payload, 1)
            /\ panel'.info = InfoText(KernelInfoOf(S))]_vars

\* C14: the panel is subscribed to the inspected and disposed signals of
\* exactly its current source, and of no handler when it has no source or is
\* disposed; an update that reaches the table comes from the current source.
C14_SubscribedToSourceOnly ==
  /\ [](/\ panel.subI = panel.subD
        /\ panel.subI = IF panel.exists /\ panel.source # NoHandler
                        THEN {panel.source} ELSE {})
  /\ [][(shown' # shown /\ shown'.by # NoHandler)
          => (shown'.by = panel.source /\ panel'.source = panel.source)]_vars

\* the source was just moved from one handler to another while the table
\* still shows the former one's rows
C14_Witness ==
  /\ last.op = "source"
  /\ last.src # NoHandler
  /\ last.arg # NoHandler
  /\ last.arg # last.src
  /\ shown.by = last.src
  /\ panel.source = last.arg
  /\ panel.subI = {last.arg}
  /\ panel.subD = {last.arg}

\* C15: assigning the handler that already is the panel's source changes
\* nothing of the panel and calls no performInspection; assigning another
\* handler calls performInspection once, on the new handler only; assigning
\* null calls none.
C15_SourceAssignmentIdempotent ==
  [][last'.op = "source" =>
       /\ last'.src = panel.source
       /\ panel'.source = last'.arg
       /\ IF last'.arg = panel.source
          THEN panel' = panel /\ last'.calls = <<>>
          ELSE IF last'.arg # NoHandler
               THEN last'.calls = <<last'.arg>>
               ELSE last'.calls = <<>>]_vars

\* the handler that is the source, whose rows are on display, was assigned
\* again
C15_Witness ==
  /\ last.op = "source"
  /\ last.arg # NoHandler
  /\ last.arg = last.src
  /\ last.calls = <<>>
  /\ panel.source = last.arg
  /\ panel.subI = {last.arg}
  /\ shown.by = last.arg

\* C16: an execution of the open command ends with manager.panel set, not
\* disposed and attached; it keeps the panel it found unless that was null or
\* disposed; it calls no performInspection when no source is set, and when
\* the source is a ready inspection handler it queries that handler exactly
\* once.
C16_OpenCommand ==
  /\ [](last.op = "open" =>
          /\ panel.exists
          /\ panel.attached
          /\ last.src = NoHandler => last.calls = <<>>)
  /\ [][last'.op = "open" =>
          /\ panel.exists => panel' = [panel EXCEPT !.attached = TRUE]
          /\ (mgrSource # NoHandler /\ Executes(mgrSource) /\ hready[mgrSource])
               => inflight'[mgrSource] = inflight[mgrSource] + 1]_vars

\* C17: a focus change to no widget, or to one neither tracker has, leaves
\* manager.source, the panel and the outstanding queries as they were; a
\* focus change to a tracked widget whose handler promise has resolved runs
\* one callback: manager.source becomes that handler, which is queried once
\* by the callback (and once more by the panel when the panel is rebound),
\* and no other handler is queried.
C17_FocusFrame ==
  [][/\ (focused # 0 /\ focused' = 0 /\ wstate' = wstate)
          => (mgrSource' = mgrSource /\ inflight' = inflight /\ panel' = panel)
     /\ \A w \in Widgets :
          (focused # w /\ focused' = w /\ prom[w] = "resolved") =>
            LET h == val[w]
                rebound == panel.exists /\ mgrSource # h /\ panel.source # h
                queries == IF ~Executes(h) THEN 0
                           ELSE IF rebound THEN 2 ELSE 1
            IN /\ mgrSource' = h
               /\ inflight' = [inflight EXCEPT ![h] = @ + queries]]_vars

\* no widget has been disposed: console 1 was focused, its handler became
\* the active source and was queried once, and the focus has since left the
\* tracked widgets
C17_Witness ==
  /\ \A w \in Widgets : wstate[w] # "disposed"
  /\ focused = 0
  /\ prom[1] = "resolved"
  /\ mgrSource = 1
  /\ inflight[1] = 1
  /\ ~panel.exists

====
